---- MODULE Spec2Model ----
(***************************************************************************)
(* autodidax: the interpreter stack and dispatch of core.py and the        *)
(* forward-mode (JVP) interpreter of autodiff.py.                          *)
(*                                                                         *)
(* autodiff.py is written against names that core.py does not define:      *)
(*   - it imports Trace and new_main_trace (autodiff.py:3); core.py has    *)
(*     Interpreter and new_interpreter instead.  The two missing names     *)
(*     are modelled from the specification (new_main_trace, Trace below).  *)
(*   - JVPTracer stores its owner in the attribute _trace                  *)
(*     (autodiff.py:10); Tracer.interpreter reads _interpreter             *)
(*     (core.py:46-48).                                                    *)
(*   - JVPTrace defines apply_prim (autodiff.py:34); bind calls            *)
(*     interpreter.interp (core.py:216).                                   *)
(* Python objects are records whose fields are the attributes the code     *)
(* sets, so a read of an attribute that was never set is an                *)
(* AttributeError here as it is in the program.                            *)
(***************************************************************************)
EXTENDS Integers, Sequences, FiniteSets, TLC

VARIABLES
  INTERPRETER_STACK,    \* core.py:176, the list of active interpreters
  DYNAMIC_INTERPRETER,  \* core.py:177, the dynamic-override slot
  frames,               \* the host's open scopes, innermost last
  stale,                \* a handle the host kept of an interpreter whose scope ended
  last                  \* the call that completed most recently

vars == <<INTERPRETER_STACK, DYNAMIC_INTERPRETER, frames, stale, last>>

(* ---------------------------- bounds ----------------------------------- *)

\* Deepest nesting of open scopes (jvp calls and with-blocks).
MaxDepth == 2

(* ------------------------ Python values -------------------------------- *)

\* A raw (non-Tracer) Python value: its type, and what np.asarray sees.
Raw(ty, dtype, shape, v) ==
  [k |-> "raw", ty |-> ty, dtype |-> dtype, shape |-> shape, v |-> v]

Num(n) == <<"c", n>>

PyFloat(n) == Raw("float", "float64", <<>>, Num(n))
NpFloat(t) == Raw("np.float64", "float64", <<>>, t)
NdArray(shape, dtype, t) == Raw("np.ndarray", dtype, shape, t)
PyStr == Raw("str", "str", <<>>, <<"s">>)

\* The vector np.array([1., 2.]).
Vec == NdArray(<<2>>, "float64", <<"arr">>)

NoVal == [k |-> "none"]

\* core.py:178
JAX_TYPES ==
  {"bool", "int", "float", "np.bool_", "np.int32", "np.int64",
   "np.float32", "np.float64", "np.ndarray"}

\* The outcome of a call: a value, or the exception it raised.
Ok(v) == [ok |-> TRUE, val |-> v, exc |-> "None"]
Raise(e) == [ok |-> FALSE, val |-> NoVal, exc |-> e]

(* ------------------------ interpreters --------------------------------- *)

\* core.py:9-11, an Interpreter instance; id stands for object identity.
Interpreter(ty, level, id) == [ty |-> ty, level |-> level, id |-> id]

\* DYNAMIC_INTERPRETER = None
NoInterp == Interpreter("None", -1, -1)

\* core.py:176, the instance the list is created with.
BaseInterpreter == Interpreter("EvalInterpreter", 0, 0)

\* core.py:17-18
Interpreter_gt(self, other) == self.level > other.level

\* core.py:20-21
Interpreter_lt(self, other) == self.level < other.level

\* The classes a scope can be opened with.
InterpreterTypes == {"EvalInterpreter", "JVPTrace"}

\* autodiff.py:152, trace = JVPTrace(main_trace); the base class Trace is
\* not defined in core.py: a JVP interpreter at the level of the scope's
\* entry.
Trace(main_trace) ==
  [ty |-> "JVPTrace", level |-> main_trace.level, main |-> main_trace]

(* --------------------------- tracers ----------------------------------- *)

\* A Tracer subclass that sets the attribute core.py:36 declares.
ClientTracer(interpreter) == [k |-> "tracer", _interpreter |-> interpreter]

\* autodiff.py:8-12
JVPTracer(trace, primal, tangent) ==
  [k |-> "jvp", _trace |-> trace, primal |-> primal, tangent |-> tangent]

\* isinstance(arg, Tracer)
IsTracer(arg) == arg.k \in {"tracer", "jvp"}

\* core.py:46-48, the property Tracer.interpreter; with _interpreter unset
\* the lookup falls to __getattr__ (core.py:80-81), which fails as well.
Tracer_interpreter(arg) ==
  IF "_interpreter" \in DOMAIN arg THEN Ok(arg._interpreter)
  ELSE Raise("AttributeError")

(* ----------------------- abstract values ------------------------------- *)

\* core.py:296-305, ConcreteArray(np.asarray(x)) of a raw value x.
ConcreteArray(x) == [shape |-> x.shape, dtype |-> x.dtype, val |-> x]

\* core.py:319-325 with JVPTracer.aval (autodiff.py:14-16) and the base
\* Tracer.aval (core.py:41-44).
RECURSIVE get_aval(_)
get_aval(x) ==
  IF x.k = "jvp" THEN get_aval(x.primal)
  ELSE IF x.k = "tracer" THEN Raise("NotImplementedError")
  ELSE IF x.ty \in JAX_TYPES THEN Ok(ConcreteArray(x))
  ELSE Raise("TypeError")

\* np.zeros_like(aval, aval.dtype) of autodiff.py:25, 97 and 107: aval is a
\* ConcreteArray, which is no array and no sequence, so numpy takes it for a
\* 0-d object and returns a 0-d array of zeros of the given dtype.
np_zeros_like(aval, dtype) == NdArray(<<>>, dtype, Num(0))

(* ---------------------- numeric kernels -------------------------------- *)

Unary == {"neg", "sin", "cos"}
Binary == {"add", "mul", "greater", "less"}
\* core.py:96-102, the primitives of the operator wrappers core.py:117-123.
Prims == Unary \cup Binary

Arity(prim) == IF prim \in Unary THEN 1 ELSE 2

IsNum(t) == t[1] = "c"

\* The value numpy computes; sin and cos stay symbolic.
KernelTerm(prim, ts) ==
  IF prim = "neg" /\ IsNum(ts[1]) THEN Num(0 - ts[1][2])
  ELSE IF prim = "add" /\ IsNum(ts[1]) /\ IsNum(ts[2])
    THEN Num(ts[1][2] + ts[2][2])
  ELSE IF prim = "mul" /\ IsNum(ts[1]) /\ IsNum(ts[2])
    THEN Num(ts[1][2] * ts[2][2])
  ELSE IF prim = "greater" /\ IsNum(ts[1]) /\ IsNum(ts[2])
    THEN Num(IF ts[1][2] > ts[2][2] THEN 1 ELSE 0)
  ELSE IF prim = "less" /\ IsNum(ts[1]) /\ IsNum(ts[2])
    THEN Num(IF ts[1][2] < ts[2][2] THEN 1 ELSE 0)
  ELSE <<prim>> \o ts

\* The shape numpy broadcasts the operands to.
BroadcastShape(xs) ==
  IF \E i \in DOMAIN xs : xs[i].shape # <<>>
  THEN xs[CHOOSE i \in DOMAIN xs : xs[i].shape # <<>>].shape
  ELSE <<>>

\* The array or numpy scalar a kernel returns.
NumpyResult(shape, dtype, t) ==
  IF shape # <<>> THEN NdArray(shape, dtype, t)
  ELSE IF dtype = "bool" THEN Raw("np.bool_", "bool", <<>>, t)
  ELSE NpFloat(t)

\* core.py:146-153, EVAL_RULES[prim](*xs) on raw operands.
EVAL_RULES(prim, xs) ==
  NumpyResult(BroadcastShape(xs),
              IF prim \in {"greater", "less"} THEN "bool" ELSE "float64",
              KernelTerm(prim, [i \in DOMAIN xs |-> xs[i].v]))

\* Python's own arithmetic on raw values (x + y, x * y, -x in the rules of
\* autodiff.py:56-88): two floats give a float, anything else is numpy's.
PyArith(prim, xs) ==
  IF \A i \in DOMAIN xs : xs[i].ty = "float"
  THEN Raw("float", "float64", <<>>,
           KernelTerm(prim, [i \in DOMAIN xs |-> xs[i].v]))
  ELSE EVAL_RULES(prim, xs)

(* ------------------- interpreter capabilities -------------------------- *)

\* autodiff.py:25
to_tracer_aval(self, val, aval) ==
  IF ~aval.ok THEN aval
  ELSE Ok(JVPTracer(self, val, np_zeros_like(aval.val, aval.val.dtype)))

\* autodiff.py:23-26, JVPTrace.to_tracer
to_tracer(self, val) == to_tracer_aval(self, val, get_aval(val))

\* core.py:162-163 (EvalInterpreter.pure), autodiff.py:28-29 (JVPTrace.pure)
pure(self, val) ==
  IF self.ty = "EvalInterpreter" THEN Ok(val) ELSE to_tracer(self, val)

\* core.py:165-166 (EvalInterpreter.lift), autodiff.py:31-32 (JVPTrace.lift)
lift(self, val) ==
  IF self.ty = "EvalInterpreter" THEN Ok(val) ELSE to_tracer(self, val)

\* Trace.interp: JVPTrace overrides pure and lift and adds apply_prim
\* (autodiff.py:22-40) but no interp, so the call of core.py:216 reaches the
\* base class, whose method is abstract as in core.py:31-32.
Trace_interp(self, prim, tracers) == Raise("NotImplementedError")

\* core.py:168-171, EvalInterpreter.interp; an operand that is a Tracer
\* object reaches numpy, which asks it for its aval (core.py:41-44, 80-81).
EvalInterpreter_interp(self, prim, tracers) ==
  IF \E i \in DOMAIN tracers : IsTracer(tracers[i])
  THEN Raise("NotImplementedError")
  ELSE Ok(EVAL_RULES(prim, tracers))

\* interpreter.interp(prim, tracers, kwargs) of core.py:216
interp(self, prim, tracers) ==
  IF self.ty = "EvalInterpreter" THEN EvalInterpreter_interp(self, prim, tracers)
  ELSE Trace_interp(self, prim, tracers)

(* ---------------------------- dispatch --------------------------------- *)

\* max(interpreters) of core.py:222: the first item no later item exceeds
\* under Interpreter.__gt__.
PyMax(interpreters) ==
  interpreters[CHOOSE i \in DOMAIN interpreters :
    /\ \A j \in DOMAIN interpreters :
         ~Interpreter_gt(interpreters[j], interpreters[i])
    /\ \A j \in 1..(i - 1) :
         Interpreter_gt(interpreters[i], interpreters[j])]

\* core.py:223-225
dynamic_override(top_interpreter, dyn) ==
  IF dyn # NoInterp /\ Interpreter_gt(dyn, top_interpreter)
  THEN Ok(dyn)
  ELSE Ok(top_interpreter)

\* core.py:221-225, given what arg.interpreter yielded for each Tracer.
find_top_among(interpreters, stack, dyn) ==
  IF \E i \in DOMAIN interpreters : ~interpreters[i].ok
  THEN Raise("AttributeError")
  ELSE dynamic_override(
         IF interpreters = <<>> THEN stack[1]
         ELSE PyMax([i \in DOMAIN interpreters |-> interpreters[i].val]),
         dyn)

\* [arg.interpreter for arg in args if isinstance(arg, Tracer)], core.py:221
arg_interpreters(tracers) ==
  [i \in DOMAIN tracers |-> Tracer_interpreter(tracers[i])]

\* core.py:220-225
find_top_interpreter(args, stack, dyn) ==
  find_top_among(arg_interpreters(SelectSeq(args, IsTracer)), stack, dyn)

\* core.py:230-239; `is` is object identity: two records are one object when
\* they agree in every field, id included.
full_raise_tracer(interpreter, arg, arg_interp) ==
  IF ~arg_interp.ok THEN arg_interp
  ELSE IF arg_interp.val = interpreter THEN Ok(arg)
  ELSE IF Interpreter_lt(arg_interp.val, interpreter)
    THEN lift(interpreter, arg)
  ELSE IF Interpreter_gt(arg_interp.val, interpreter)
    THEN Raise("Exception: Can't lift level")
  ELSE Raise("Exception: Different interpreters at same level")

\* core.py:228-242
full_raise(interpreter, arg) ==
  IF IsTracer(arg)
  THEN full_raise_tracer(interpreter, arg, Tracer_interpreter(arg))
  ELSE IF arg.ty \notin JAX_TYPES THEN Raise("AssertionError")
  ELSE pure(interpreter, arg)

\* core.py:245-246 with Tracer.full_lower (core.py:50-51)
full_lower(arg) == arg

\* What a list comprehension got to: every outcome, or those up to the
\* first exception.
UpToFirstRaise(all) ==
  IF \A i \in DOMAIN all : all[i].ok THEN all
  ELSE SubSeq(all, 1, CHOOSE i \in DOMAIN all :
                        /\ ~all[i].ok
                        /\ \A j \in 1..(i - 1) : all[j].ok)

\* core.py:215, [full_raise(interpreter, arg) for arg in args]
Raised(interpreter, args) ==
  UpToFirstRaise([i \in DOMAIN args |-> full_raise(interpreter, args[i])])

\* core.py:216-217
bind_interp(prim, out_tracer) ==
  IF out_tracer.ok THEN Ok(full_lower(out_tracer.val)) ELSE out_tracer

\* core.py:215-217, with the interpreter chosen and the operands raised.
bind_raised(prim, args, stack, dyn, top, norm) ==
  IF \E i \in DOMAIN norm : ~norm[i].ok
  THEN [op |-> "bind", prim |-> prim, args |-> args, stack |-> stack,
        dyn |-> dyn, top |-> top, norm |-> norm, ran |-> FALSE,
        res |-> norm[Len(norm)]]
  ELSE [op |-> "bind", prim |-> prim, args |-> args, stack |-> stack,
        dyn |-> dyn, top |-> top, norm |-> norm, ran |-> TRUE,
        res |-> bind_interp(prim,
                  interp(top.val, prim, [i \in DOMAIN norm |-> norm[i].val]))]

\* core.py:214-217, with the outcome of find_top_interpreter.
bind_top(prim, args, stack, dyn, top) ==
  IF ~top.ok
  THEN [op |-> "bind", prim |-> prim, args |-> args, stack |-> stack,
        dyn |-> dyn, top |-> top, norm |-> <<>>, ran |-> FALSE, res |-> top]
  ELSE bind_raised(prim, args, stack, dyn, top, Raised(top.val, args))

\* core.py:209-217, a call bind(prim, *args) under the given stack and slot.
\* top: what find_top_interpreter gave; norm: the outcome of full_raise per
\* operand; ran: whether interpreter.interp was called; res: what bind
\* returned or raised.
bind(prim, args, stack, dyn) ==
  bind_top(prim, args, stack, dyn, find_top_interpreter(args, stack, dyn))

NoOp == [op |-> "none"]

(* -------------------- computations of host code ------------------------ *)

\* What a piece of host code did: the value it gave or the exception it
\* raised, and the calls of bind it made, in order.
Ret(v) == [res |-> Ok(v), binds |-> <<>>]

Done(res) == [res |-> res, binds |-> <<>>]

Ran(bound) == [res |-> bound.res, binds |-> <<bound>>]

Cat(c, d) == [res |-> d.res, binds |-> c.binds \o d.binds]

\* c, and on success F of its value.
Then(c, F(_)) == IF c.res.ok THEN Cat(c, F(c.res.val)) ELSE c

\* The tuple (c, d), evaluated left to right.
Pair(c, d) ==
  IF ~c.res.ok THEN c
  ELSE IF ~d.res.ok THEN Cat(c, d)
  ELSE [res |-> Ok(<<c.res.val, d.res.val>>), binds |-> c.binds \o d.binds]

\* core.py:117-123, POP.<prim>(*args)
POP(prim, args, stack, dyn) == Ran(bind(prim, args, stack, dyn))

\* self.aval._<op>(...) of core.py:53-72: the aval is fetched, then the
\* operator wrapper of core.py:265-271 is called.
aval_op(aval, prim, args, stack, dyn) ==
  IF aval.ok THEN POP(prim, args, stack, dyn) ELSE Done(aval)

\* a + b, a * b in Python: Tracer.__add__, __radd__, __mul__, __rmul__
\* (core.py:53-63) when an operand is a Tracer, else the values' own
\* arithmetic; a > b, a < b with the Tracer on the left (core.py:68-72).
py_binop(prim, a, b, stack, dyn) ==
  IF IsTracer(a) THEN aval_op(get_aval(a), prim, <<a, b>>, stack, dyn)
  ELSE IF IsTracer(b) THEN aval_op(get_aval(b), prim, <<a, b>>, stack, dyn)
  ELSE Ret(PyArith(prim, <<a, b>>))

\* -a in Python: Tracer.__neg__ (core.py:65-66) or the value's own.
py_neg(a, stack, dyn) ==
  IF IsTracer(a) THEN aval_op(get_aval(a), "neg", <<a>>, stack, dyn)
  ELSE Ret(PyArith("neg", <<a>>))

\* bool(x): Tracer.__bool__ (core.py:74-75) with ConcreteArray._bool
\* (core.py:307-309), or the value's own truth.
py_bool_aval(x, aval) ==
  IF ~IsTracer(x) THEN Ok(x.v # Num(0))
  ELSE IF ~aval.ok THEN aval
  ELSE Ok(aval.val.val.v # Num(0))

py_bool(x) == py_bool_aval(x, get_aval(x))

(* --------------------------- JVP rules --------------------------------- *)

\* autodiff.py:56-60
jvp_add(primals, tangents, stack, dyn) ==
  Pair(py_binop("add", primals[1], primals[2], stack, dyn),
       py_binop("add", tangents[1], tangents[2], stack, dyn))

\* autodiff.py:63-67
jvp_mul(primals, tangents, stack, dyn) ==
  Pair(py_binop("mul", primals[1], primals[2], stack, dyn),
       Then(Pair(py_binop("mul", tangents[1], primals[2], stack, dyn),
                 py_binop("mul", primals[1], tangents[2], stack, dyn)),
            LAMBDA p : py_binop("add", p[1], p[2], stack, dyn)))

\* autodiff.py:70-74
jvp_sin(primals, tangents, stack, dyn) ==
  Pair(POP("sin", <<primals[1]>>, stack, dyn),
       Then(POP("cos", <<primals[1]>>, stack, dyn),
            LAMBDA c : py_binop("mul", c, tangents[1], stack, dyn)))

\* autodiff.py:77-81
jvp_cos(primals, tangents, stack, dyn) ==
  Pair(POP("cos", <<primals[1]>>, stack, dyn),
       Then(Then(POP("sin", <<primals[1]>>, stack, dyn),
                 LAMBDA s : py_neg(s, stack, dyn)),
            LAMBDA n : py_binop("mul", n, tangents[1], stack, dyn)))

\* autodiff.py:84-88
jvp_neg(primals, tangents, stack, dyn) ==
  Pair(POP("neg", <<primals[1]>>, stack, dyn),
       POP("neg", <<tangents[1]>>, stack, dyn))

\* autodiff.py:96-98 and 106-108
zero_tangent(primal_out, aval) ==
  IF ~aval.ok THEN Done(aval)
  ELSE Ret(<<primal_out, np_zeros_like(aval.val, aval.val.dtype)>>)

\* autodiff.py:91-98
jvp_greater(primals, tangents, stack, dyn) ==
  Then(POP("greater", primals, stack, dyn),
       LAMBDA primal_out : zero_tangent(primal_out, get_aval(primal_out)))

\* autodiff.py:101-108
jvp_less(primals, tangents, stack, dyn) ==
  Then(POP("less", primals, stack, dyn),
       LAMBDA primal_out : zero_tangent(primal_out, get_aval(primal_out)))

\* JVP_RULES[prim](primals_in, tangents_in), autodiff.py:37-38
JVP_RULES(prim, primals, tangents, stack, dyn) ==
  CASE prim = "add" -> jvp_add(primals, tangents, stack, dyn)
    [] prim = "mul" -> jvp_mul(primals, tangents, stack, dyn)
    [] prim = "sin" -> jvp_sin(primals, tangents, stack, dyn)
    [] prim = "cos" -> jvp_cos(primals, tangents, stack, dyn)
    [] prim = "neg" -> jvp_neg(primals, tangents, stack, dyn)
    [] prim = "greater" -> jvp_greater(primals, tangents, stack, dyn)
    [] prim = "less" -> jvp_less(primals, tangents, stack, dyn)

\* autodiff.py:34-40, JVPTrace.apply_prim
apply_prim(self, prim, tracers, stack, dyn) ==
  Then(JVP_RULES(prim, [i \in DOMAIN tracers |-> tracers[i].primal],
                 [i \in DOMAIN tracers |-> tracers[i].tangent], stack, dyn),
       LAMBDA out : Ret(JVPTracer(self, out[1], out[2])))

(* ----------------------------- scopes ---------------------------------- *)

\* The level counted from the entries above the base interpreter.
new_interpreter_level_above_base(stack) == Len(stack) - 1

\* core.py:186
new_interpreter_level(stack) == Len(stack)

\* core.py:186-188, entering `with new_interpreter(ty)`
new_interpreter_enter(stack, ty, id) ==
  Append(stack, Interpreter(ty, new_interpreter_level(stack), id))

\* The pop without the finally clause: skipped when the body raised.
new_interpreter_exit_no_finally(stack, raising) ==
  IF raising THEN stack ELSE SubSeq(stack, 1, Len(stack) - 1)

\* core.py:189-192, leaving it: the finally clause pops whether the body
\* returned or raised.
new_interpreter_exit(stack, raising) == SubSeq(stack, 1, Len(stack) - 1)

\* core.py:201-202, entering `with new_dynamic_interpreter(interpreter)`:
\* the slot's new content and the saved prev_dyn_interp.
new_dynamic_interpreter_enter(dyn, interpreter) ==
  [dyn |-> interpreter, prev |-> dyn]

\* core.py:203-206, leaving it.
new_dynamic_interpreter_exit(prev, raising) == prev

\* autodiff.py:151, `with new_main_trace(JVPTrace) as main_trace`.  core.py
\* defines no new_main_trace; it is the scope the specification describes:
\* a fresh interpreter pushed on entry and popped on every exit.
new_main_trace_enter(stack, ty, id) == new_interpreter_enter(stack, ty, id)

new_main_trace_exit(stack, raising) == new_interpreter_exit(stack, raising)

(* ------------------------ host functions ------------------------------- *)

\* The functions handed to jvp.
\*   prim p : adx.sin, adx.cos, adx.neg, lambda x: x + x, lambda x: x * x
\*   branch : tests/test_autodiff.py:54-58
\*   deriv g: tests/test_autodiff.py:36-37, lambda x: jvp(g, (x,), (1.,))[1]
\*   const c: lambda *a: c
\*   ident  : lambda x: x
\*   raise  : a function that raises
BaseFns ==
  {[kind |-> "prim", prim |-> p] : p \in {"sin", "cos", "neg", "add", "mul"}}
    \cup {[kind |-> "branch"], [kind |-> "ident"], [kind |-> "raise"]}
    \cup {[kind |-> "const", c |-> c] : c \in {PyFloat(5), Vec, PyStr}}

RECURSIVE FnsUpTo(_)
FnsUpTo(n) ==
  IF n = 0 THEN BaseFns
  ELSE FnsUpTo(n - 1) \cup {[kind |-> "deriv", of |-> g] : g \in FnsUpTo(n - 1)}

\* The number of jvp scopes a call of jvp(fn, ...) opens, itself included.
RECURSIVE FnDepth(_)
FnDepth(fn) == IF fn.kind = "deriv" THEN 1 + FnDepth(fn.of) ELSE 1

\* Whether the function takes any number of arguments.
Variadic(fn) == fn.kind \in {"const", "raise"}

\* tests/test_autodiff.py:55-58, after the comparison: the test coerced to a
\* bool picks 2. * x, which is Tracer.__rmul__ (core.py:62-63), or x.
branch_on(b, x, stack, dyn) ==
  IF ~b.ok THEN Done(b)
  ELSE IF b.val THEN py_binop("mul", PyFloat(2), x, stack, dyn)
  ELSE Ret(x)

\* tests/test_autodiff.py:54-58; x > 0. is Tracer.__gt__ (core.py:68-69).
branch_fn(x, stack, dyn) ==
  Then(py_binop("greater", x, PyFloat(0), stack, dyn),
       LAMBDA test : branch_on(py_bool(test), x, stack, dyn))

\* The body of a function that calls no jvp, run on the argument x.
fn_body(fn, x, stack, dyn) ==
  CASE fn.kind = "prim" /\ fn.prim \in Unary -> POP(fn.prim, <<x>>, stack, dyn)
    [] fn.kind = "prim" /\ fn.prim \in Binary ->
         py_binop(fn.prim, x, x, stack, dyn)
    [] fn.kind = "branch" -> branch_fn(x, stack, dyn)
    [] fn.kind = "const" -> Ret(fn.c)
    [] fn.kind = "ident" -> Ret(x)
    [] OTHER -> Done(Raise("HostError"))

(* ------------------------------ jvp ------------------------------------ *)

\* A tuple handed to jvp, as opposed to a bare value.
Tuple(items) == [k |-> "tuple", items |-> items]

\* autodiff.py:146-147
to_tuple(x) == IF x.k = "tuple" THEN x.items ELSE <<x>>

\* zip(primals, tangents) of autodiff.py:153 stops at the shorter tuple.
zip_len(primals, tangents) ==
  IF Len(primals) <= Len(tangents) THEN Len(primals) ELSE Len(tangents)

\* autodiff.py:153
in_tracers(trace, primals, tangents) ==
  [i \in 1..zip_len(primals, tangents) |->
     JVPTracer(trace, primals[i], tangents[i])]

\* autodiff.py:166-167; made is the Tracer full_raise returned.
lower_out(out_tracer) ==
  IF ~out_tracer.ok THEN out_tracer
  ELSE IF "primal" \notin DOMAIN out_tracer.val THEN Raise("AttributeError")
  ELSE Ok([primal |-> out_tracer.val.primal,
           tangent |-> out_tracer.val.tangent,
           made |-> out_tracer.val])

\* autodiff.py:164-167
lower_fn_output(trace, fn_out) == lower_out(full_raise(trace, fn_out))

\* autodiff.py:154-159: the call fn(*in_tracers) has returned or raised.  The
\* functions of the model return one value, so the branch taken is
\* autodiff.py:159.
jvp_out(trace, out) ==
  IF out.ok THEN lower_fn_output(trace, out.val) ELSE out

(* --------------------------- the state --------------------------------- *)

Snapshot == [stack |-> INTERPRETER_STACK, dyn |-> DYNAMIC_INTERPRETER]

Init ==
  /\ INTERPRETER_STACK = <<BaseInterpreter>>
  /\ DYNAMIC_INTERPRETER = NoInterp
  /\ frames = <<>>
  /\ stale = NoInterp
  /\ last = NoOp

Top == frames[Len(frames)]

\* Host code is running at module level or in the body of a with-block.
InHost == IF frames = <<>> THEN TRUE ELSE Top.kind \in {"interp", "dyn"}

\* Host code is running and is done with the result of its last call.
HostContext == last = NoOp /\ InHost

\* The function of a jvp call is about to be called.
AtCall == IF frames = <<>> THEN FALSE ELSE Top.kind = "jvp" /\ Top.pc = "call"

\* The function of a jvp call has returned or raised.
AtReturn ==
  IF frames = <<>> THEN FALSE
  ELSE Top.kind = "jvp" /\ Top.pc \in {"ret", "raise"}

\* The dynamic interpreters the open with-blocks will put back
\* (prev_dyn_interp of core.py:202).
SavedDyn == {frames[i].prev : i \in {j \in DOMAIN frames : frames[j].kind = "dyn"}}

\* The Interpreter objects something still refers to.
Live ==
  {INTERPRETER_STACK[i] : i \in DOMAIN INTERPRETER_STACK}
    \cup {stale, DYNAMIC_INTERPRETER} \cup SavedDyn

\* The identity of a new object: one no live object has.
FreshId == CHOOSE n \in 1..(Cardinality(Live) + 1) :
  /\ \A h \in Live : h.id # n
  /\ \A m \in 1..(n - 1) : \E h \in Live : h.id = m

\* The interpreters host code holds a reference to.
Handles ==
  {INTERPRETER_STACK[i] : i \in DOMAIN INTERPRETER_STACK}
    \cup ({stale} \ {NoInterp})

JVPHandles == {h \in Handles : h.ty = "JVPTrace"}

\* The operands host code applies a primitive to: raw values, Tracers that
\* set _interpreter, and JVPTracers it constructs (autodiff.py:9-12).
RawOperands == {PyFloat(3), PyStr}
\* The operators host code applies directly (core.py:117-123): one unary,
\* one arithmetic, one comparison; the others run in functions and rules.
HostPrims == {"sin", "add", "greater"}
HostOperands ==
  RawOperands \cup {ClientTracer(h) : h \in Handles}
    \cup {JVPTracer(h, PyFloat(3), PyFloat(1)) : h \in JVPHandles}

\* The Tracers host code hands to apply_prim of the interpreter self: a
\* primal that is a raw value, or the Tracer of an interpreter below.
RuleOperands(self) ==
  {JVPTracer(self, PyFloat(3), PyFloat(1))}
    \cup {JVPTracer(self, JVPTracer(h, PyFloat(3), PyFloat(1)), PyFloat(0)) :
            h \in {g \in JVPHandles : g.level < self.level}}

\* The arguments host code calls jvp with: primals and tangents.
JvpArgs ==
  {<<PyFloat(3), Tuple(<<PyFloat(1)>>)>>,
   <<Tuple(<<PyFloat(3)>>), Tuple(<<PyFloat(1)>>)>>,
   <<Tuple(<<PyFloat(-3)>>), Tuple(<<PyFloat(1)>>)>>,
   <<Tuple(<<PyFloat(3), PyFloat(2)>>), Tuple(<<PyFloat(1)>>)>>,
   <<Tuple(<<PyFloat(3)>>), Tuple(<<PyFloat(1), PyFloat(1)>>)>>,
   <<Tuple(<<PyFloat(3), PyFloat(2)>>), Tuple(<<PyFloat(1), PyFloat(1)>>)>>}

(* ---------------------------- actions ---------------------------------- *)

\* autodiff.py:152-153: the interpreter of the call and the wrapped inputs.
jvp_frame(fn, primals, tangents, main_trace, trace) ==
  [kind |-> "jvp", fn |-> fn, primals |-> primals, tangents |-> tangents,
   main |-> main_trace, trace |-> trace,
   in_tracers |-> in_tracers(trace, primals, tangents),
   pc |-> "call", out |-> Raise("None"), invoked |-> FALSE, pre |-> Snapshot]

\* autodiff.py:151-153, with the stack as new_main_trace left it.
jvp_push(fn, primals, tangents, outer, stack) ==
  /\ INTERPRETER_STACK' = stack
  /\ frames' = Append(outer,
       jvp_frame(fn, primals, tangents, stack[Len(stack)],
                 Trace(stack[Len(stack)])))
  /\ last' = NoOp
  /\ UNCHANGED <<DYNAMIC_INTERPRETER, stale>>

\* autodiff.py:149-153: the arguments are made tuples, the scope is entered
\* and the inputs are wrapped.  outer is the frames below the new one.
jvp_enter(fn, primals, tangents, outer) ==
  jvp_push(fn, to_tuple(primals), to_tuple(tangents), outer,
           new_main_trace_enter(INTERPRETER_STACK, "JVPTrace", FreshId))

\* Host code calls jvp(fn, primals, tangents).
JvpCall ==
  \E fn \in FnsUpTo(MaxDepth - 1), args \in JvpArgs :
    /\ HostContext
    /\ Len(frames) + FnDepth(fn) <= MaxDepth
    /\ jvp_enter(fn, args[1], args[2], frames)

\* The call fn(*in_tracers) of autodiff.py:154 is over.
fn_returned(c, invoked) ==
  /\ frames' = [frames EXCEPT ![Len(frames)] =
                  [@ EXCEPT !.pc = IF c.res.ok THEN "ret" ELSE "raise",
                            !.out = c.res,
                            !.invoked = invoked]]
  /\ last' = [op |-> "fn", binds |-> c.binds, res |-> c.res]
  /\ UNCHANGED <<INTERPRETER_STACK, DYNAMIC_INTERPRETER, stale>>

\* autodiff.py:154, fn(*in_tracers), for a function that calls no jvp; a
\* function of one parameter given another number of arguments is not run.
FnRun ==
  /\ AtCall
  /\ ~(Top.fn.kind = "deriv" /\ Len(Top.in_tracers) = 1)
  /\ IF ~Variadic(Top.fn) /\ Len(Top.in_tracers) # 1
     THEN fn_returned(Done(Raise("TypeError")), FALSE)
     ELSE fn_returned(fn_body(Top.fn, Top.in_tracers[1],
                              INTERPRETER_STACK, DYNAMIC_INTERPRETER), TRUE)

\* autodiff.py:154 for deriv(g) (tests/test_autodiff.py:36-37): the function
\* calls jvp(g, (x,), (1.,)) and waits for it.
FnCallsJvp ==
  /\ AtCall
  /\ Top.fn.kind = "deriv" /\ Len(Top.in_tracers) = 1
  /\ jvp_enter(Top.fn.of, Tuple(<<Top.in_tracers[1]>>), Tuple(<<PyFloat(1)>>),
               [frames EXCEPT ![Len(frames)] =
                  [@ EXCEPT !.pc = "wait", !.invoked = TRUE]])

\* What the caller of a jvp call gets: host code the pair or the exception,
\* deriv(g) the pair's item 1 as its own result.
jvp_deliver(outer, res) ==
  IF outer = <<>> THEN outer
  ELSE IF outer[Len(outer)].kind # "jvp" THEN outer
  ELSE [outer EXCEPT ![Len(outer)] =
          [@ EXCEPT !.pc = IF res.ok THEN "ret" ELSE "raise",
                    !.out = IF res.ok THEN Ok(res.val.tangent) ELSE res]]

\* The with-block of autodiff.py:151 is left and jvp returns or raises.
jvp_leave(f, res, stack) ==
  /\ INTERPRETER_STACK' = stack
  /\ frames' = jvp_deliver(SubSeq(frames, 1, Len(frames) - 1), res)
  /\ last' = [op |-> "jvp", fn |-> f.fn, primals |-> f.primals,
              tangents |-> f.tangents, invoked |-> f.invoked,
              res |-> res, pre |-> f.pre,
              post |-> [stack |-> stack, dyn |-> DYNAMIC_INTERPRETER],
              trace |-> f.trace, fn_out |-> f.out, depth |-> Len(frames)]
  /\ UNCHANGED <<DYNAMIC_INTERPRETER, stale>>

\* autodiff.py:155-161 with the result or exception res.
jvp_return(f, res) ==
  jvp_leave(f, res, new_main_trace_exit(INTERPRETER_STACK, ~res.ok))

\* autodiff.py:155-161 and the exit of the with-block of autodiff.py:151: the
\* output is unwrapped, the scope is left, and the caller gets the pair or the
\* exception.
JvpReturn ==
  /\ AtReturn
  /\ jvp_return(Top, jvp_out(Top.trace, Top.out))

\* Host code applies a primitive operator (core.py:117-123).
Bind ==
  \E prim \in HostPrims :
    \E args \in [1..Arity(prim) -> HostOperands] :
      /\ HostContext
      /\ last' = bind(prim, args, INTERPRETER_STACK, DYNAMIC_INTERPRETER)
      /\ UNCHANGED <<INTERPRETER_STACK, DYNAMIC_INTERPRETER, frames, stale>>

\* Host code calls full_raise(interpreter, arg) (core.py:228-242), as
\* lower_fn_output does.
FullRaise ==
  \E interpreter \in Handles, arg \in HostOperands :
    /\ HostContext
    /\ last' = [op |-> "full_raise", interpreter |-> interpreter,
                arg |-> arg, res |-> full_raise(interpreter, arg)]
    /\ UNCHANGED <<INTERPRETER_STACK, DYNAMIC_INTERPRETER, frames, stale>>

\* A completed call self.apply_prim(prim, tracers, {}).
applied(self, prim, tracers, c) ==
  [op |-> "apply_prim", self |-> self, prim |-> prim, tracers |-> tracers,
   stack |-> INTERPRETER_STACK, dyn |-> DYNAMIC_INTERPRETER,
   binds |-> c.binds, res |-> c.res]

\* Host code calls the rule method of a JVP interpreter (autodiff.py:34-40),
\* which bind never reaches.
ApplyPrim ==
  \E self \in JVPHandles, prim \in Prims :
    \E tracers \in [1..Arity(prim) -> RuleOperands(self)] :
      /\ HostContext
      /\ last' = applied(self, prim, tracers,
                   apply_prim(self, prim, tracers,
                              INTERPRETER_STACK, DYNAMIC_INTERPRETER))
      /\ UNCHANGED <<INTERPRETER_STACK, DYNAMIC_INTERPRETER, frames, stale>>

\* Host code enters `with new_interpreter(ty) as interpreter` (core.py:181-188).
with_interpreter(stack) ==
  /\ INTERPRETER_STACK' = stack
  /\ frames' = Append(frames,
       [kind |-> "interp", main |-> stack[Len(stack)], pre |-> Snapshot])
  /\ last' = NoOp
  /\ UNCHANGED <<DYNAMIC_INTERPRETER, stale>>

WithInterpreter ==
  \E ty \in InterpreterTypes :
    /\ HostContext
    /\ Len(frames) < MaxDepth
    /\ with_interpreter(new_interpreter_enter(INTERPRETER_STACK, ty, FreshId))

\* Host code enters `with new_dynamic_interpreter(interpreter)`
\* (core.py:195-202).
with_dynamic(e) ==
  /\ DYNAMIC_INTERPRETER' = e.dyn
  /\ frames' = Append(frames, [kind |-> "dyn", prev |-> e.prev, pre |-> Snapshot])
  /\ last' = NoOp
  /\ UNCHANGED <<INTERPRETER_STACK, stale>>

WithDynamic ==
  \E interpreter \in Handles \ {stale} :
    /\ HostContext
    /\ Len(frames) < MaxDepth
    /\ with_dynamic(new_dynamic_interpreter_enter(DYNAMIC_INTERPRETER, interpreter))

\* The body of a with-block ends, by running to its end or by raising
\* (core.py:189-192, 203-206).  Host code keeps the interpreter it was given.
WithExit ==
  \E raising \in BOOLEAN :
    /\ frames # <<>>
    /\ HostContext
    /\ IF Top.kind = "interp"
       THEN /\ INTERPRETER_STACK' =
                 new_interpreter_exit(INTERPRETER_STACK, raising)
            /\ stale' = INTERPRETER_STACK[Len(INTERPRETER_STACK)]
            /\ UNCHANGED DYNAMIC_INTERPRETER
       ELSE /\ DYNAMIC_INTERPRETER' =
                 new_dynamic_interpreter_exit(Top.prev, raising)
            /\ UNCHANGED <<INTERPRETER_STACK, stale>>
    /\ frames' = SubSeq(frames, 1, Len(frames) - 1)
    /\ last' = NoOp

\* Host code goes on after a call returned or raised.
Continue ==
  /\ last # NoOp
  /\ InHost
  /\ last' = NoOp
  /\ UNCHANGED <<INTERPRETER_STACK, DYNAMIC_INTERPRETER, frames, stale>>

Next ==
  \/ JvpCall
  \/ FnRun
  \/ FnCallsJvp
  \/ JvpReturn
  \/ Bind
  \/ FullRaise
  \/ ApplyPrim
  \/ WithInterpreter
  \/ WithDynamic
  \/ WithExit
  \/ Continue

Spec == Init /\ [][Next]_vars

(* ------------------ what the last call made visible -------------------- *)

\* The calls of bind made by the call that completed last.
Binds ==
  IF last.op = "bind" THEN {last}
  ELSE IF last.op \in {"fn", "apply_prim"}
    THEN {last.binds[i] : i \in DOMAIN last.binds}
  ELSE {}

\* The interpreter a Tracer was created under.
Owner(t) == IF t.k = "jvp" THEN t._trace ELSE t._interpreter

TracerArgs(args) == {args[i] : i \in {j \in DOMAIN args : IsTracer(args[j])}}

Owners(args) == {Owner(t) : t \in TracerArgs(args)}

HasJVPTracer(args) == \E t \in TracerArgs(args) : t.k = "jvp"

\* The operand of a rule: the primal of a JVPTracer, or the value itself.
PrimalOf(a) == IF a.k = "jvp" THEN a.primal ELSE a

\* The operand normalisations of the call that completed last: the
\* interpreter, the operand, and what full_raise gave or raised.
BindNormalisations(b) ==
  {[interpreter |-> b.top.val, arg |-> b.args[i], res |-> b.norm[i]] :
     i \in DOMAIN b.norm}

Normalisations ==
  UNION {BindNormalisations(b) : b \in Binds}
    \cup (IF last.op = "full_raise"
          THEN {[interpreter |-> last.interpreter, arg |-> last.arg,
                 res |-> last.res]}
          ELSE {})
    \cup (IF last.op = "jvp"
          THEN IF last.fn_out.ok
               THEN {[interpreter |-> last.trace, arg |-> last.fn_out.val,
                      res |-> IF last.res.ok THEN Ok(last.res.val.made)
                              ELSE last.res]}
               ELSE {}
          ELSE {})

\* A call jvp(fn, (x,), (1.,)) on a raw x has completed.
JvpOfOne(kind) ==
  IF last.op = "jvp"
  THEN /\ last.fn.kind = kind
       /\ Len(last.primals) = 1
       /\ last.primals[1].k = "raw"
       /\ last.tangents = <<PyFloat(1)>>
  ELSE FALSE

(* ------------------------------- C1 ------------------------------------ *)

\* C1: when a call of jvp returns, or raises to its caller, the interpreter
\* stack (length and entries) and the dynamic-override slot are what they
\* were immediately before the call; nested calls and calls whose function
\* or dispatch raised included.
C1_StackAndSlotRestored == last.op = "jvp" => last.post = last.pre

\* A jvp called inside the function of an enclosing jvp, or inside a
\* with-block, has raised the exception of its dispatch.
C1_NestedRaisingCall ==
  IF last.op = "jvp"
  THEN /\ ~last.res.ok
       /\ last.res.exc = "AttributeError"
       /\ last.invoked
       /\ Len(last.pre.stack) = 2
       /\ frames # <<>>
  ELSE FALSE

(* ------------------------------- C8 ------------------------------------ *)

IsPush(f) == f.kind \in {"interp", "jvp"}

\* The interpreters the open scopes pushed, outermost first.
Pushed ==
  [i \in DOMAIN SelectSeq(frames, IsPush) |-> SelectSeq(frames, IsPush)[i].main]

\* C8: in every reachable state the interpreter stack is non-empty, its entry
\* 0 is the base evaluation interpreter with level 0, the entry at position i
\* has level i (so each nested scope runs at a level above all entries
\* below it), and the entries above the base are exactly the interpreters of
\* the open scopes in the order they were pushed (pops are last-in
\* first-out).
C8_StackLevels ==
  /\ INTERPRETER_STACK # <<>>
  /\ INTERPRETER_STACK[1] = BaseInterpreter
  /\ \A i \in DOMAIN INTERPRETER_STACK : INTERPRETER_STACK[i].level = i - 1
  /\ \A i, j \in DOMAIN INTERPRETER_STACK :
       i < j => Interpreter_lt(INTERPRETER_STACK[i], INTERPRETER_STACK[j])
  /\ Tail(INTERPRETER_STACK) = Pushed

\* A jvp nested in the function of an enclosing jvp has failed and was
\* popped; the enclosing call is still open.
C8_NestedJvpFailed ==
  IF last.op = "jvp" /\ Len(frames) = 1
  THEN /\ ~last.res.ok
       /\ last.depth = 2
       /\ frames[1].kind = "jvp"
       /\ Len(INTERPRETER_STACK) = 2
  ELSE FALSE

(* ------------------------------- C2 ------------------------------------ *)

\* fn(x) as a term, for the functions sin, cos, neg, x + x and x * x.
PlainTerm(prim, t) ==
  IF prim \in Unary THEN KernelTerm(prim, <<t>>) ELSE KernelTerm(prim, <<t, t>>)

\* The tangent the rule table gives fn at x with input tangent d.
RuleTangent(prim, t, d) ==
  CASE prim = "add" -> KernelTerm("add", <<d, d>>)
    [] prim = "mul" ->
         KernelTerm("add", <<KernelTerm("mul", <<d, t>>),
                             KernelTerm("mul", <<t, d>>)>>)
    [] prim = "neg" -> KernelTerm("neg", <<d>>)
    [] prim = "sin" -> KernelTerm("mul", <<KernelTerm("cos", <<t>>), d>>)
    [] prim = "cos" ->
         KernelTerm("mul", <<KernelTerm("neg", <<KernelTerm("sin", <<t>>)>>), d>>)

\* C2 as the specification states it: for fn among sin, cos, neg, x + x and
\* x * x and every input x, jvp(fn, (x,), (1,)) returns the pair of fn(x)
\* and the derivative the rule table gives.
C2_JvpReturnsValueAndDerivative ==
  JvpOfOne("prim") =>
    /\ last.res.ok
    /\ last.res.val.primal.k = "raw"
    /\ last.res.val.primal.v = PlainTerm(last.fn.prim, last.primals[1].v)
    /\ last.res.val.tangent.k = "raw"
    /\ last.res.val.tangent.v =
         RuleTangent(last.fn.prim, last.primals[1].v, Num(1))

\* C2 as the code behaves: every such call runs fn and raises the
\* AttributeError of the first dispatch on the input Tracer.
C2_JvpRaisesAttributeError ==
  JvpOfOne("prim") =>
    /\ last.invoked
    /\ ~last.res.ok
    /\ last.res.exc = "AttributeError"

\* jvp(sin, (3.,), (1.,)) has raised.
C2_JvpOfSinRaised ==
  /\ JvpOfOne("prim")
  /\ last.fn.prim = "sin"
  /\ last.primals = <<PyFloat(3)>>
  /\ ~last.res.ok

(* ------------------------------- C3 ------------------------------------ *)

ArityMismatch ==
  IF last.op = "jvp" THEN Len(last.primals) # Len(last.tangents) ELSE FALSE

\* C3 as the specification states it: a call of jvp whose primals and
\* tangents differ in length fails with an ArityError and does not invoke fn.
C3_ArityErrorOnMismatch ==
  ArityMismatch =>
    /\ ~last.res.ok
    /\ last.res.exc = "ArityError"
    /\ ~last.invoked

\* C3 as the code behaves: zip drops the surplus items, fn is invoked on the
\* pairs that remain, and no ArityError is raised.
C3_MismatchInvokesFn ==
  ArityMismatch =>
    /\ last.invoked
    /\ last.res.exc # "ArityError"

\* jvp(lambda *a: 5., (3., 2.), (1.,)) has returned a pair.
C3_MismatchReturnedPair ==
  /\ ArityMismatch
  /\ last.primals = <<PyFloat(3), PyFloat(2)>>
  /\ last.tangents = <<PyFloat(1)>>
  /\ last.res.ok
  /\ last.res.val.primal = PyFloat(5)

(* ------------------------------- C4 ------------------------------------ *)

\* An application of greater or less to a JVPTracer.
ComparisonUnderJVP(b) ==
  /\ b.prim \in {"greater", "less"}
  /\ HasJVPTracer(b.args)

\* C4 as the specification states it: every application of greater or less
\* under a JVP interpreter gives a Tracer whose tangent is zero and whose
\* primal is the comparison of the operands' primals.
C4_ComparisonHasZeroTangent ==
  \A b \in Binds :
    (ComparisonUnderJVP(b) /\ \A i \in DOMAIN b.args : PrimalOf(b.args[i]).k = "raw")
      => /\ b.res.ok
         /\ b.res.val.k = "jvp"
         /\ b.res.val.tangent.v = Num(0)
         /\ b.res.val.primal.v =
              KernelTerm(b.prim, [i \in DOMAIN b.args |-> PrimalOf(b.args[i]).v])

\* C4 as the code behaves: the application raises AttributeError before any
\* rule is run.
C4_ComparisonRaises ==
  \A b \in Binds :
    ComparisonUnderJVP(b) =>
      /\ ~b.res.ok
      /\ b.res.exc = "AttributeError"
      /\ ~b.ran

\* x > 0. on the input Tracer of a jvp call has raised.
C4_ComparisonInJvpRaised ==
  IF last.op = "fn"
  THEN \E b \in Binds : ComparisonUnderJVP(b) /\ b.prim = "greater" /\ ~b.res.ok
  ELSE FALSE

(* ------------------------------- C5 ------------------------------------ *)

\* C5 as the specification states it: for f(x) = 2 * x if x > 0 else x,
\* jvp(f, (x,), (1,)) returns the tangent 2 when x > 0 and 1 otherwise.
C5_BranchOnConcreteValue ==
  JvpOfOne("branch") =>
    /\ last.res.ok
    /\ last.res.val.tangent.k = "raw"
    /\ last.res.val.tangent.v =
         Num(IF last.primals[1].v[2] > 0 THEN 2 ELSE 1)

\* C5 as the code behaves: the comparison raises AttributeError, so no
\* branch is taken.
C5_BranchRaises ==
  JvpOfOne("branch") =>
    /\ last.invoked
    /\ ~last.res.ok
    /\ last.res.exc = "AttributeError"

\* jvp(f, (-3.,), (1.,)) has raised.
C5_BranchAtMinusThreeRaised ==
  /\ JvpOfOne("branch")
  /\ last.primals = <<PyFloat(-3)>>
  /\ ~last.res.ok

(* ------------------------------- C6 ------------------------------------ *)

\* The interpreters of maximum level among the owners of the Tracer
\* operands, or the base interpreter when no operand is a Tracer.
Selected(b) ==
  IF Owners(b.args) = {} THEN {b.stack[1]}
  ELSE {o \in Owners(b.args) : \A p \in Owners(b.args) : p.level <= o.level}

\* The slot is set and holds an interpreter of a strictly greater level.
Overrides(b) ==
  /\ b.dyn # NoInterp
  /\ \A s \in Selected(b) : b.dyn.level > s.level

\* All operands are raw values of supported types.
SupportedRaw(args) ==
  \A i \in DOMAIN args : ~IsTracer(args[i]) /\ args[i].ty \in JAX_TYPES

\* What C6 says of one call of bind.
SelectsTop(b) ==
  /\ b.top.ok
  /\ IF Overrides(b) THEN b.top.val = b.dyn ELSE b.top.val \in Selected(b)
  /\ (SupportedRaw(b.args) /\ b.dyn = NoInterp) =>
       /\ b.top.val = b.stack[1]
       /\ b.ran
       /\ b.res.ok
       /\ ~IsTracer(b.res.val)

\* C6 as the specification states it: every call of bind selects the
\* interpreter of maximum level among the owners of its Tracer operands, or
\* the base interpreter when there is none, replaced by the override exactly
\* when the slot holds an interpreter of strictly greater level; raw
\* operands with no override are evaluated by the base interpreter to a raw
\* value.
C6_TopSelection == \A b \in Binds : SelectsTop(b)

\* C6 as the code behaves: a call with a JVPTracer operand raises
\* AttributeError and selects nothing; every other call selects as stated.
C6_TopSelectionUnlessJVPTracer ==
  \A b \in Binds :
    IF HasJVPTracer(b.args)
    THEN ~b.top.ok /\ b.top.exc = "AttributeError" /\ ~b.ran
    ELSE SelectsTop(b)

\* Host code applied sin to a JVPTracer it made, and dispatch raised.
C6_SinOfJVPTracerRaised ==
  IF last.op = "bind"
  THEN /\ last.prim = "sin"
       /\ HasJVPTracer(last.args)
       /\ ~last.top.ok
  ELSE FALSE

(* ------------------------------- C7 ------------------------------------ *)

\* The outcome C7 gives the normalisation of one operand.
NormalisedAsStated(n) ==
  IF IsTracer(n.arg)
  THEN IF Owner(n.arg) = n.interpreter THEN n.res = Ok(n.arg)
       ELSE IF Owner(n.arg).level < n.interpreter.level
         THEN n.res = lift(n.interpreter, n.arg)
       ELSE IF Owner(n.arg).level > n.interpreter.level
         THEN ~n.res.ok /\ n.res.exc = "Exception: Can't lift level"
       ELSE ~n.res.ok
            /\ n.res.exc = "Exception: Different interpreters at same level"
  ELSE IF n.arg.ty \in JAX_TYPES THEN n.res = pure(n.interpreter, n.arg)
  ELSE ~n.res.ok /\ n.res.exc = "AssertionError"

\* A call of bind whose selection or normalisation failed ran no rule.
RuleNotRunOnFailure ==
  \A b \in Binds :
    (~b.top.ok \/ \E i \in DOMAIN b.norm : ~b.norm[i].ok) => ~b.ran

\* C7 as the specification states it: each operand is passed through (a
\* Tracer of the selected interpreter), lifted (a Tracer of a lower level),
\* wrapped by pure (a supported raw value), or the call fails with the level
\* error, the conflict error or the unsupported-type error; on failure the
\* rule is not run.
C7_NormalisationOutcomes ==
  /\ \A n \in Normalisations : NormalisedAsStated(n)
  /\ RuleNotRunOnFailure

\* C7 as the code behaves: the normalisation of a JVPTracer raises
\* AttributeError whatever its owner; every other operand is treated as
\* stated.
C7_OutcomesUnlessJVPTracer ==
  /\ \A n \in Normalisations :
       IF n.arg.k = "jvp"
       THEN ~n.res.ok /\ n.res.exc = "AttributeError"
       ELSE NormalisedAsStated(n)
  /\ RuleNotRunOnFailure

\* jvp(lambda x: x, ...) has raised: the output is the input Tracer, owned
\* by the interpreter it is normalised against.
C7_OwnTracerNotPassedThrough ==
  IF last.op = "jvp"
  THEN /\ last.fn.kind = "ident"
       /\ last.fn_out.ok
       /\ Owner(last.fn_out.val) = last.trace
       /\ ~last.res.ok
  ELSE FALSE

(* ------------------------------- C9 ------------------------------------ *)

\* The normalisations in which a JVP interpreter's pure or lift made a Tracer.
Made ==
  {n \in Normalisations :
     /\ n.interpreter.ty = "JVPTrace"
     /\ n.res.ok
     /\ n.res.val # n.arg}

\* The Tracer holds the value as primal, is owned by the interpreter that
\* made it, and its tangent is zero, of the value's dtype and of the shape
\* given.
ZeroTangentOfShape(n, shape) ==
  /\ n.res.val.k = "jvp"
  /\ n.res.val.primal = n.arg
  /\ n.res.val._trace = n.interpreter
  /\ n.res.val.tangent.v = Num(0)
  /\ n.res.val.tangent.dtype = get_aval(n.arg).val.dtype
  /\ n.res.val.tangent.shape = shape

\* C9 as the specification states it: a Tracer made by pure or lift holds
\* the value as primal and a zero tangent of the primal's shape and dtype,
\* and is owned by the interpreter that made it.
C9_ZeroTangentOfPrimalShape ==
  \A n \in Made : ZeroTangentOfShape(n, get_aval(n.arg).val.shape)

\* C9 as the code behaves: the zero tangent is 0-dimensional whatever the
\* primal's shape.
C9_ZeroTangentIsScalar == \A n \in Made : ZeroTangentOfShape(n, <<>>)

\* pure has wrapped the vector a function returned.
C9_VectorGotScalarTangent ==
  \E n \in Made :
    /\ n.arg = Vec
    /\ n.res.val.tangent.shape = <<>>

(* ------------------------------- C10 ----------------------------------- *)

====
